---- MODULE Spec2Model ----
(***************************************************************************)
(* A model of the usage-rate and schedule engine of ccusage-monitor:       *)
(* the two caches (ccusage_monitor/cache.py, ccusage_monitor/core/cache.py)*)
(* the upstream fetch with its failure cooldown (core/data.py), and the    *)
(* burn-rate and reset-time computations (core/calculations.py).           *)
(*                                                                         *)
(* Time is counted in whole seconds.  time.time() is the variable clock.   *)
(* Every cached value is a record [tag, a, b] so that values of different  *)
(* Python types can live in one cache and be compared.                     *)
(***************************************************************************)
EXTENDS Integers, Sequences, FiniteSets, TLC

VARIABLES
    clock,      \* time.time(), in seconds
    target,     \* the cache instance the cache operations are applied to
    lru,        \* an LRUCache instance: [cache, max_size, hits, misses]
    simple,     \* a Cache instance: its _cache dict
    lastOp,     \* the last cache operation and what it returned
    expired,    \* keys whose last event was an expiring get
    recency,    \* keys of lru from least to most recently used (bookkeeping)
    gets,       \* get calls on lru since construction or the last clear()
    gcache,     \* core/cache.py: the global cache, LRUCache(max_size=500)
    lastGood,   \* the snapshot of the last successful upstream fetch
    lastFail,   \* the instant of the last failed upstream fetch (-1: none)
    call,       \* the last run_ccusage call and what it returned
    prints,     \* per failure category, when its message was last printed
    burn,       \* the last calculate_hourly_burn_rate call and its result
    args,       \* the monitor's arguments: reset hour, timezone, offset of now
    reset,      \* the last get_next_reset_time call and its result
    limit,      \* the last get_token_limit call and its result
    mon         \* the monitor loop: its position, quota, cursor and last tick

cacheVars == <<target, lru, simple, lastOp, expired, recency, gets>>

fetchVars == <<lastGood, lastFail, call, prints>>

resetVars == <<args, reset>>

vars == <<clock, cacheVars, gcache, fetchVars, burn, resetVars, limit, mon>>

(***************************************************************************)
(* Values                                                                  *)
(***************************************************************************)
None == [tag |-> "None", a |-> 0, b |-> 0]

Val(n) == [tag |-> "val", a |-> n, b |-> 0]

\* custom_reset_hour = None
NoHour == -1

\* the defaults of --reset-hour and --timezone, now in UTC
DefaultArgs ==
    [reset_hour |-> NoHour, timezone |-> "Europe/Warsaw", now_offset |-> 0]

\* no get_next_reset_time call made yet
NoReset ==
    [made |-> FALSE, now |-> 0, raised |-> FALSE, ret |-> 0, fresh |-> FALSE,
     first |-> 0]

\* no get_token_limit call made yet
NoLimit ==
    [made |-> FALSE, fn |-> "", plan |-> "", given |-> FALSE, blocks |-> <<>>,
     ret |-> 0]

\* no calculate_hourly_burn_rate call made yet
\* no tick of the monitor loop made yet
NoTick ==
    [kind |-> "", tokens_used |-> 0, inferred |-> 0, before |-> 0,
     burn_rate |-> [n |-> 0, d |-> 1], now |-> 0, reset_time |-> 0,
     predicted_end_time |-> [n |-> 0, d |-> 1],
     switch |-> FALSE, exceed |-> FALSE, plain |-> FALSE, rich |-> FALSE]

\* main() before parse_args: the terminal's cursor is visible
NoMonitor ==
    [pc |-> "start", ui |-> "", plan |-> "", token_limit |-> 0,
     cursor |-> "visible", shows |-> 0, raised |-> "", exit |-> "",
     tick |-> NoTick]

\* no value of calculations.calculate_hourly_burn_rate recorded
NoOriginal == [raised |-> FALSE, ret |-> None]

NoBurn ==
    [made |-> FALSE, blocks |-> <<>>, now |-> 0, raised |-> FALSE,
     ret |-> None, fresh |-> FALSE, fn |-> "", original |-> NoOriginal]

(***************************************************************************)
(* Bounds of the cache exploration                                         *)
(***************************************************************************)
MaxClock == 2

MaxSize == 2

MaxGets == 2

CacheKeys == {"k1", "k2", "k3"}

CacheValues == {Val(1), Val(2)}

CacheTtls == {0, 1}

\* a ttl below zero, as in test_negative_ttl
NegativeTtls == {-1}

(***************************************************************************)
(* OrderedDict helpers: an OrderedDict is a sequence of                    *)
(* [key, value, timestamp] entries, first = oldest position.               *)
(***************************************************************************)
Keys(od) == {od[i].key : i \in 1..Len(od)}

Entry(od, key) == od[CHOOSE i \in 1..Len(od) : od[i].key = key]

Without(od, key) == SelectSeq(od, LAMBDA e : e.key # key)

Assign(od, key, value, now) ==
    IF key \in Keys(od)
    THEN [i \in 1..Len(od) |->
            IF od[i].key = key
            THEN [key |-> key, value |-> value, timestamp |-> now]
            ELSE od[i]]
    ELSE Append(od, [key |-> key, value |-> value, timestamp |-> now])

MoveToEnd(od, key) == Append(Without(od, key), Entry(od, key))

PopFirst(od) == Tail(od)

(***************************************************************************)
(* core/cache.py: LRUCache                                                 *)
(***************************************************************************)
LRUCache(max_size) ==
    [cache |-> <<>>, max_size |-> max_size, hits |-> 0, misses |-> 0]

Expired_AtTtl(e, ttl, now) == ttl > 0 /\ now - e.timestamp >= ttl

\* ttl > 0 and time.time() - timestamp > ttl
Expired(e, ttl, now) == ttl > 0 /\ now - e.timestamp > ttl

LRUCache_get_NoMove(c, key, ttl, now) ==
    IF key \notin Keys(c.cache)
    THEN [c |-> [c EXCEPT !.misses = @ + 1], ret |-> None]
    ELSE LET e == Entry(c.cache, key) IN
         IF ttl > 0 /\ now - e.timestamp > ttl
         THEN [c |-> [c EXCEPT !.cache = Without(@, key), !.misses = @ + 1],
               ret |-> None]
         ELSE [c |-> [c EXCEPT !.hits = @ + 1], ret |-> e.value]

LRUCache_get_KeepExpired(c, key, ttl, now) ==
    IF key \notin Keys(c.cache)
    THEN [c |-> [c EXCEPT !.misses = @ + 1], ret |-> None]
    ELSE LET e == Entry(c.cache, key) IN
         IF ttl > 0 /\ now - e.timestamp > ttl
         THEN [c |-> [c EXCEPT !.misses = @ + 1], ret |-> None]
         ELSE [c |-> [c EXCEPT !.cache = MoveToEnd(@, key), !.hits = @ + 1],
               ret |-> e.value]

LRUCache_get(c, key, ttl, now) ==
    IF key \notin Keys(c.cache)
    THEN [c |-> [c EXCEPT !.misses = @ + 1], ret |-> None]
    ELSE LET e == Entry(c.cache, key) IN
         IF Expired(e, ttl, now)
         THEN [c |-> [c EXCEPT !.cache = Without(@, key), !.misses = @ + 1],
               ret |-> None]
         ELSE [c |-> [c EXCEPT !.cache = MoveToEnd(@, key), !.hits = @ + 1],
               ret |-> e.value]

LRUCache_set(c, key, value, now) ==
    IF key \in Keys(c.cache)
    THEN [c EXCEPT !.cache = MoveToEnd(Assign(@, key, value, now), key)]
    ELSE LET added == Assign(c.cache, key, value, now) IN
         [c EXCEPT !.cache = IF Len(added) > c.max_size
                             THEN PopFirst(added)
                             ELSE added]

LRUCache_clear_KeepStats(c) == [c EXCEPT !.cache = <<>>]

LRUCache_clear(c) == [c EXCEPT !.cache = <<>>, !.hits = 0, !.misses = 0]

LRUCache_cleanup_expired(c, ttl, now) ==
    IF ttl <= 0
    THEN c
    ELSE [c EXCEPT !.cache = SelectSeq(@, LAMBDA e : ~(now - e.timestamp > ttl))]

\* get_stats()["hit_rate"] = hits / total * 100 compared with a percentage p
HitRateBelow(c, p) ==
    LET total == c.hits + c.misses IN
    IF total > 0 THEN c.hits * 100 < p * total ELSE 0 < p

HitRateAbove(c, p) ==
    LET total == c.hits + c.misses IN
    IF total > 0 THEN c.hits * 100 > p * total ELSE 0 > p

(***************************************************************************)
(* cache.py: Cache.  _cache is a dict: a function from the stored keys.    *)
(***************************************************************************)
Cache_get(d, key, ttl, now) ==
    IF key \notin DOMAIN d
    THEN [c |-> d, ret |-> None]
    ELSE IF Expired(d[key], ttl, now)
         THEN [c |-> [k \in DOMAIN d \ {key} |-> d[k]], ret |-> None]
         ELSE [c |-> d, ret |-> d[key].value]

Cache_set(d, key, value, now) ==
    [k \in DOMAIN d \cup {key} |->
        IF k = key THEN [value |-> value, timestamp |-> now] ELSE d[k]]

Cache_clear(d) == [k \in {} |-> None]

(***************************************************************************)
(* core/data.py: run_ccusage on the global cache.  The upstream process is *)
(* an input: outcome says how an invocation of it would end.               *)
(***************************************************************************)
GlobalMaxSize == 500

Float(t) == [tag |-> "float", a |-> t, b |-> 0]

IntV(n) == [tag |-> "int", a |-> n, b |-> 0]

Data(n) == [tag |-> "data", a |-> n, b |-> 0]

Snapshots == {Data(1), Data(2)}

Failures == {"timeout", "not_found", "process_error", "json_error"}

Outcomes == [kind : {"ok"}, data : Snapshots] \cup [kind : Failures, data : {None}]

\* Python truth value of a cached value
Truthy(v) == v # None /\ ~(v.tag \in {"float", "int"} /\ v.a = 0)

BaseTtl == 5

\* base_ttl * 2 below a 50% hit rate, base_ttl * 0.8 above 80%, else base_ttl
GetAdaptiveCacheTtl_Inclusive(c) ==
    IF ~HitRateAbove(c, 50) THEN BaseTtl * 2
    ELSE IF ~HitRateBelow(c, 80) THEN (BaseTtl * 8) \div 10
    ELSE BaseTtl

GetAdaptiveCacheTtl(c) ==
    IF HitRateBelow(c, 50) THEN BaseTtl * 2
    ELSE IF HitRateAbove(c, 80) THEN (BaseTtl * 8) \div 10
    ELSE BaseTtl

Cooldown == 30

ErrorPrintWindow == 60

ErrorKey(error_type) == "ccusage_last_" \o error_type \o "_error"

HandleCcusageError_SharedKey(c, error_type, now) ==
    LET g == LRUCache_get(c, "ccusage_last_error", 0, now)
        show == \/ ~Truthy(g.ret)
                \/ now - g.ret.a > ErrorPrintWindow
        c1 == IF show
              THEN LRUCache_set(g.c, "ccusage_last_error", Float(now), now)
              ELSE g.c
    IN  [c |-> LRUCache_set(c1, "ccusage_last_error_time", Float(now), now),
         printed |-> show]

HandleCcusageError(c, error_type, now) ==
    LET g == LRUCache_get(c, ErrorKey(error_type), 0, now)
        show == ~Truthy(g.ret) \/ now - g.ret.a > ErrorPrintWindow
        c1 == IF show
              THEN LRUCache_set(g.c, ErrorKey(error_type), Float(now), now)
              ELSE g.c
    IN  [c |-> LRUCache_set(c1, "ccusage_last_error_time", Float(now), now),
         printed |-> show]

GetFallbackData(c, now) == LRUCache_get(c, "ccusage_data_fallback", 0, now)

\* the except clauses of run_ccusage
RunCcusage_OnFailure(c, kind, now) ==
    LET h == HandleCcusageError(c, kind, now) IN
    IF kind = "not_found"
    THEN [c |-> h.c, ret |-> None, printed |-> h.printed]
    ELSE LET f == GetFallbackData(h.c, now) IN
         [c |-> f.c, ret |-> f.ret, printed |-> h.printed]

\* the try block of run_ccusage when the upstream answers with data
RunCcusage_OnSuccess(c, data, now) ==
    LET c1 == LRUCache_set(c, "ccusage_data", data, now)
        c2 == LRUCache_set(c1, "ccusage_data_fallback", data, now)
        c3 == LRUCache_set(c2, "ccusage_last_error_time", None, now)
    IN  [c |-> c3, ret |-> data, printed |-> FALSE]

\* time.time() - last_error_time < 30
InCooldown_Never(last_error_time, now) == FALSE

InCooldown(last_error_time, now) ==
    /\ Truthy(last_error_time)
    /\ last_error_time.tag = "float"
    /\ now - last_error_time.a < Cooldown

RunCcusage(c, outcome, now) ==
    LET cached == LRUCache_get(c, "ccusage_data", GetAdaptiveCacheTtl(c), now) IN
    IF cached.ret # None
    THEN [c |-> cached.c, ret |-> cached.ret, invoked |-> FALSE,
          printed |-> FALSE, source |-> "cache", ttl |-> GetAdaptiveCacheTtl(c)]
    ELSE LET err == LRUCache_get(cached.c, "ccusage_last_error_time", 0, now) IN
         IF InCooldown(err.ret, now)
         THEN LET f == LRUCache_get(err.c, "ccusage_data_fallback", 0, now) IN
              [c |-> f.c, ret |-> f.ret, invoked |-> FALSE, printed |-> FALSE,
               source |-> "fallback", ttl |-> GetAdaptiveCacheTtl(c)]
         ELSE LET r == IF outcome.kind = "ok"
                       THEN RunCcusage_OnSuccess(err.c, outcome.data, now)
                       ELSE RunCcusage_OnFailure(err.c, outcome.kind, now)
              IN  [c |-> r.c, ret |-> r.ret, invoked |-> TRUE,
                   printed |-> r.printed, source |-> "upstream",
                   ttl |-> GetAdaptiveCacheTtl(c)]

\* get_token_limit for the fixed plans, which keeps its answer in the cache
PlanLimit(plan) ==
    IF plan = "max5" THEN 35000 ELSE IF plan = "max20" THEN 140000 ELSE 7000

DataGetTokenLimit_Fixed(c, plan, now) ==
    LET g == LRUCache_get(c, "token_limit_" \o plan, 0, now) IN
    IF g.ret.tag \in {"int", "float"}
    THEN [c |-> g.c, ret |-> g.ret.a]
    ELSE [c |-> LRUCache_set(g.c, "token_limit_" \o plan, IntV(PlanLimit(plan)), now),
          ret |-> PlanLimit(plan)]

(***************************************************************************)
(* The fetch as actions.  call records the last run_ccusage call together  *)
(* with the last failure instant and last good snapshot known before it.   *)
(***************************************************************************)
MaxFetchClock == 44

MaxRequests == 7

FetchSteps == {10, 11, 29, 30}

NoCall ==
    [made |-> FALSE, t |-> 0, kind |-> "", invoked |-> FALSE, ret |-> None,
     priorFail |-> -1, priorGood |-> None, printed |-> FALSE,
     source |-> "", ttl |-> 0, hits |-> 0, misses |-> 0, age |-> -1,
     priorPrint |-> -1]

\* no error message printed yet
NoPrint == -1

FetchIdle ==
    /\ gcache = LRUCache(GlobalMaxSize)
    /\ burn = NoBurn
    /\ reset = NoReset
    /\ limit = NoLimit
    /\ mon = NoMonitor
    /\ lastGood = None
    /\ lastFail = -1
    /\ call = NoCall
    /\ prints = [k \in Failures |-> NoPrint]

Requests == gcache.hits + gcache.misses

\* the age of the ccusage_data entry, -1 when there is none
DataAge ==
    IF "ccusage_data" \in Keys(gcache.cache)
    THEN clock - Entry(gcache.cache, "ccusage_data").timestamp
    ELSE -1

\* one run_ccusage call at time.time() = clock; prints keeps the instant of
\* the last printed message of every failure category
DoRunCcusage(outcome) ==
    /\ LET r == RunCcusage(gcache, outcome, clock) IN
       /\ gcache' = r.c
       /\ call' = [made |-> TRUE, t |-> clock,
                   kind |-> IF r.invoked THEN outcome.kind ELSE "",
                   invoked |-> r.invoked, ret |-> r.ret,
                   priorFail |-> lastFail, priorGood |-> lastGood,
                   printed |-> r.printed, source |-> r.source, ttl |-> r.ttl,
                   hits |-> gcache.hits, misses |-> gcache.misses,
                   age |-> DataAge,
                   priorPrint |-> IF outcome.kind \in Failures
                                  THEN prints[outcome.kind] ELSE NoPrint]
       /\ prints' = IF r.printed
                    THEN [prints EXCEPT ![outcome.kind] = clock]
                    ELSE prints
       /\ lastGood' = IF r.invoked /\ outcome.kind = "ok"
                      THEN outcome.data ELSE lastGood
       /\ lastFail' = IF r.invoked /\ outcome.kind # "ok"
                      THEN clock ELSE lastFail
    /\ UNCHANGED <<clock, cacheVars, burn, resetVars, limit, mon>>

CallRunCcusage(outcome) ==
    /\ Requests < MaxRequests
    /\ DoRunCcusage(outcome)

\* the same call over the longer runs in which error messages repeat
MaxErrRequests == 12

MaxErrClock == 63

ErrSteps == {30, 31}

ErrCallRunCcusage(outcome) ==
    /\ Requests < MaxErrRequests
    /\ DoRunCcusage(outcome)

ErrTick(d) ==
    /\ clock + d <= MaxErrClock
    /\ clock' = clock + d
    /\ UNCHANGED <<cacheVars, gcache, fetchVars, burn, resetVars, limit, mon>>

\* and over the runs of many calls in which the hit rate rises
MaxTtlRequests == 12

MaxTtlClock == 12

TtlSteps == {5, 6}

TtlCallRunCcusage(outcome) ==
    /\ Requests < MaxTtlRequests
    /\ DoRunCcusage(outcome)

TtlTick(d) ==
    /\ clock + d <= MaxTtlClock
    /\ clock' = clock + d
    /\ UNCHANGED <<cacheVars, gcache, fetchVars, burn, resetVars, limit, mon>>

CallGetTokenLimit(plan) ==
    /\ Requests < MaxRequests
    /\ gcache' = DataGetTokenLimit_Fixed(gcache, plan, clock).c
    /\ UNCHANGED <<clock, cacheVars, fetchVars, burn, resetVars, limit, mon>>

FetchTick(d) ==
    /\ clock + d <= MaxFetchClock
    /\ clock' = clock + d
    /\ UNCHANGED <<cacheVars, gcache, fetchVars, burn, resetVars, limit, mon>>


(***************************************************************************)
(* core/calculations.py: calculate_hourly_burn_rate.  Instants are seconds *)
(* since an epoch; a rate is an exact fraction [n, d] of tokens per        *)
(* minute, kept in lowest terms.                                           *)
(***************************************************************************)
RECURSIVE Gcd(_, _)
Gcd(x, y) == IF y = 0 THEN x ELSE Gcd(y, x % y)

Abs(x) == IF x < 0 THEN -x ELSE x

\* the fraction n / d (d # 0) in lowest terms with a positive denominator
Frac(n, d) ==
    LET g == Gcd(Abs(n), Abs(d))
        sgn == IF d < 0 THEN -1 ELSE 1
    IN  [n |-> sgn * (n \div g), d |-> sgn * (d \div g)]

FracAdd(x, y) == Frac(x.n * y.d + y.n * x.d, x.d * y.d)

FracMul(x, y) == Frac(x.n * y.n, x.d * y.d)

FracDiv(x, y) == Frac(x.n * y.d, x.d * y.n)

Zero == Frac(0, 1)

Rate(f) == [tag |-> "rate", a |-> f.n, b |-> f.d]

Min(n) == n * 60

\* a timestamp field of a block: absent, not ISO-8601, or an instant
NoTime == -1

BadTime == -2

Block(start, end, tokens, active, gap) ==
    [startTime |-> start, actualEndTime |-> end, totalTokens |-> tokens,
     isActive |-> active, isGap |-> gap]

Max(x, y) == IF x > y THEN x ELSE y

Least(x, y) == IF x < y THEN x ELSE y

\* the tokens per minute one block adds once its overlap is known non-empty
Contribution(block, start_time, session_actual_end, current_time) ==
    LET one_hour_ago == current_time - Min(60)
        session_start_in_hour == Max(start_time, one_hour_ago)
        session_end_in_hour == Least(session_actual_end, current_time)
        session_tokens == Frac(block.totalTokens, 1)
        total_session_duration == session_actual_end - start_time
        hour_duration == session_end_in_hour - session_start_in_hour
    IN  IF block.isActive
        THEN IF total_session_duration > 0
             THEN FracDiv(session_tokens, Frac(total_session_duration, 60))
             ELSE Zero
        ELSE IF total_session_duration > 0
             THEN LET proportional_tokens ==
                          FracMul(session_tokens,
                                  Frac(hour_duration, total_session_duration))
                      duration_minutes == Frac(hour_duration, 60)
                  IN  IF duration_minutes.n > 0
                      THEN FracDiv(proportional_tokens, duration_minutes)
                      ELSE Zero
             ELSE Zero

\* the loop over reversed(blocks): i is the index of the next block, total
\* the sum so far.  The result is [raised, total]; raised is the ValueError
\* of datetime.fromisoformat on a string that is no ISO-8601 instant.
RECURSIVE BurnLoop(_, _, _, _)
BurnLoop(blocks, current_time, i, total) ==
    IF i = 0 THEN [raised |-> FALSE, total |-> total]
    ELSE LET block == blocks[i]
             skip == BurnLoop(blocks, current_time, i - 1, total)
         IN
         IF block.isGap THEN skip
         ELSE IF block.startTime = NoTime THEN skip
         ELSE IF block.startTime = BadTime THEN [raised |-> TRUE, total |-> total]
         ELSE IF block.startTime > current_time THEN skip
         ELSE IF ~block.isActive /\ block.actualEndTime = BadTime
              THEN [raised |-> TRUE, total |-> total]
         ELSE LET session_actual_end ==
                      IF block.isActive \/ block.actualEndTime = NoTime
                      THEN current_time
                      ELSE block.actualEndTime
              IN  IF session_actual_end < current_time - Min(60)
                  THEN [raised |-> FALSE, total |-> total]
                  ELSE IF Least(session_actual_end, current_time)
                             <= Max(block.startTime, current_time - Min(60))
                  THEN skip
                  ELSE BurnLoop(blocks, current_time, i - 1,
                          FracAdd(total, Contribution(block, block.startTime,
                                         session_actual_end, current_time)))

\* lines 24-85: the computation without the cache
BurnRateUncached(blocks, current_time) ==
    BurnLoop(blocks, current_time, Len(blocks), Zero)

\* f"burn_rate_{current_time.isoformat()}_{len(blocks)}"
BurnKey(blocks, current_time) ==
    "burn_rate_" \o ToString(current_time) \o "_" \o ToString(Len(blocks))

BurnTtl == 10

\* calculate_hourly_burn_rate on cache c at time.time() = now
CalculateHourlyBurnRate(c, blocks, current_time, now) ==
    IF blocks = <<>>
    THEN [c |-> c, raised |-> FALSE, ret |-> Rate(Zero)]
    ELSE LET cached == LRUCache_get(c, BurnKey(blocks, current_time), BurnTtl, now) IN
         IF cached.ret # None
         THEN [c |-> cached.c, raised |-> FALSE, ret |-> cached.ret]
         ELSE LET r == BurnRateUncached(blocks, current_time) IN
              IF r.raised
              THEN [c |-> cached.c, raised |-> TRUE, ret |-> None]
              ELSE [c |-> LRUCache_set(cached.c, BurnKey(blocks, current_time),
                                       Rate(r.total), now),
                    raised |-> FALSE, ret |-> Rate(r.total)]

(***************************************************************************)
(* The burn-rate calls as actions, on blocks drawn from a pool of the      *)
(* shapes the loop distinguishes.                                          *)
(***************************************************************************)
MaxBlocks == 2

MaxBurnRequests == 2

MaxBurnClock == 11

BurnSteps == {10, 11}

BurnNows == {Min(180), Min(181)}

BlockPool ==
    { Block(Min(0), Min(60), 1000, FALSE, FALSE),     \* ended before the window
      Block(Min(90), Min(150), 3000, FALSE, FALSE),   \* half inside the window
      Block(Min(90), Min(150), 0, FALSE, FALSE),      \* no totalTokens
      Block(Min(150), NoTime, 600, FALSE, FALSE),     \* completed, no end
      Block(Min(150), Min(150), 600, FALSE, FALSE),   \* end == start
      Block(Min(150), NoTime, 600, TRUE, FALSE),      \* active
      Block(Min(150), NoTime, 3000, TRUE, TRUE),      \* gap
      Block(BadTime, BadTime, 3000, FALSE, TRUE),     \* gap, unparseable times
      Block(Min(60), NoTime, 2400, TRUE, FALSE),      \* active since before the window
      Block(NoTime, NoTime, 600, FALSE, FALSE),       \* no startTime
      Block(BadTime, NoTime, 600, FALSE, FALSE),      \* unparseable startTime
      Block(Min(150), BadTime, 600, FALSE, FALSE),    \* unparseable end
      Block(Min(200), NoTime, 600, FALSE, FALSE) }    \* starts after now

BlockLists == UNION {[1..n -> BlockPool] : n \in 0..MaxBlocks}

CallBurnRate(blocks, current_time) ==
    /\ gcache.hits + gcache.misses < MaxBurnRequests
    /\ LET r == CalculateHourlyBurnRate(gcache, blocks, current_time, clock) IN
       /\ gcache' = r.c
       /\ burn' = [made |-> TRUE, blocks |-> blocks, now |-> current_time,
                   raised |-> r.raised, ret |-> r.ret,
                   fresh |-> gcache.cache = <<>>,
                   fn |-> "core", original |-> NoOriginal]
    /\ UNCHANGED <<clock, cacheVars, fetchVars, resetVars, limit, mon>>

BurnTick(d) ==
    /\ clock + d <= MaxBurnClock
    /\ clock' = clock + d
    /\ UNCHANGED <<cacheVars, gcache, fetchVars, burn, resetVars, limit, mon>>

BurnNext ==
    \/ \E b \in BlockLists, t \in BurnNows : CallBurnRate(b, t)
    \/ \E d \in BurnSteps : BurnTick(d)

(***************************************************************************)
(* calculations.py and calculations_optimized.py:                          *)
(* calculate_hourly_burn_rate.  The optimized one keeps its results in the *)
(* module-level Cache instance of cache.py.                                *)
(***************************************************************************)
\* session_tokens * (hour_duration / total_session_duration)
TokensInHour(block, start_time, session_actual_end, current_time) ==
    LET one_hour_ago == current_time - Min(60)
        session_start_in_hour == Max(start_time, one_hour_ago)
        session_end_in_hour == Least(session_actual_end, current_time)
        total_session_duration == session_actual_end - start_time
        hour_duration == session_end_in_hour - session_start_in_hour
    IN  IF total_session_duration > 0
        THEN FracMul(Frac(block.totalTokens, 1),
                     Frac(hour_duration, total_session_duration))
        ELSE Zero

\* total_tokens / 60 if total_tokens > 0 else 0
PerMinute(total_tokens) ==
    IF total_tokens.n > 0 THEN FracDiv(total_tokens, Frac(60, 1)) ELSE Zero

\* calculations.py: the loop over blocks in list order; startTime is parsed
\* before the gap test and a block that ended before the window is skipped
RECURSIVE OriginalLoop(_, _, _, _)
OriginalLoop(blocks, current_time, i, total) ==
    IF i > Len(blocks) THEN [raised |-> FALSE, total |-> total]
    ELSE LET block == blocks[i]
             skip == OriginalLoop(blocks, current_time, i + 1, total)
         IN
         IF block.startTime = NoTime THEN skip
         ELSE IF block.startTime = BadTime THEN [raised |-> TRUE, total |-> total]
         ELSE IF block.isGap THEN skip
         ELSE IF ~block.isActive /\ block.actualEndTime = BadTime
              THEN [raised |-> TRUE, total |-> total]
         ELSE LET session_actual_end ==
                      IF block.isActive \/ block.actualEndTime = NoTime
                      THEN current_time
                      ELSE block.actualEndTime
              IN  IF session_actual_end < current_time - Min(60)
                  THEN skip
                  ELSE IF Least(session_actual_end, current_time)
                             <= Max(block.startTime, current_time - Min(60))
                  THEN skip
                  ELSE OriginalLoop(blocks, current_time, i + 1,
                          FracAdd(total, TokensInHour(block, block.startTime,
                                         session_actual_end, current_time)))

\* calculations.calculate_hourly_burn_rate
OriginalBurnRate(blocks, current_time) ==
    IF blocks = <<>>
    THEN [raised |-> FALSE, ret |-> Rate(Zero)]
    ELSE LET r == OriginalLoop(blocks, current_time, 1, Zero) IN
         IF r.raised
         THEN [raised |-> TRUE, ret |-> None]
         ELSE [raised |-> FALSE, ret |-> Rate(PerMinute(r.total))]

\* calculations_optimized.py: the loop over reversed(blocks); the gap test
\* comes first and a block that ended before the window ends the loop
RECURSIVE OptimizedLoop(_, _, _, _)
OptimizedLoop(blocks, current_time, i, total) ==
    IF i = 0 THEN [raised |-> FALSE, total |-> total]
    ELSE LET block == blocks[i]
             skip == OptimizedLoop(blocks, current_time, i - 1, total)
         IN
         IF block.isGap THEN skip
         ELSE IF block.startTime = NoTime THEN skip
         ELSE IF block.startTime = BadTime THEN [raised |-> TRUE, total |-> total]
         ELSE IF block.startTime > current_time THEN skip
         ELSE IF ~block.isActive /\ block.actualEndTime = BadTime
              THEN [raised |-> TRUE, total |-> total]
         ELSE LET session_actual_end ==
                      IF block.isActive \/ block.actualEndTime = NoTime
                      THEN current_time
                      ELSE block.actualEndTime
              IN  IF session_actual_end < current_time - Min(60)
                  THEN [raised |-> FALSE, total |-> total]
                  ELSE IF Least(session_actual_end, current_time)
                             <= Max(block.startTime, current_time - Min(60))
                  THEN skip
                  ELSE OptimizedLoop(blocks, current_time, i - 1,
                          FracAdd(total, TokensInHour(block, block.startTime,
                                         session_actual_end, current_time)))

\* f"burn_rate_{current_time.minute}"
OptimizedKey(current_time) ==
    "burn_rate_" \o ToString((current_time \div 60) % 60)

OptimizedTtl == 30

\* calculations_optimized.calculate_hourly_burn_rate on the Cache d at
\* time.time() = now
OptimizedBurnRate(d, blocks, current_time, now) ==
    IF blocks = <<>>
    THEN [c |-> d, raised |-> FALSE, ret |-> Rate(Zero)]
    ELSE LET cached == Cache_get(d, OptimizedKey(current_time), OptimizedTtl, now) IN
         IF cached.ret # None
         THEN [c |-> cached.c, raised |-> FALSE, ret |-> cached.ret]
         ELSE LET r == OptimizedLoop(blocks, current_time, Len(blocks), Zero) IN
              IF r.raised
              THEN [c |-> cached.c, raised |-> TRUE, ret |-> None]
              ELSE [c |-> Cache_set(cached.c, OptimizedKey(current_time),
                                    Rate(PerMinute(r.total)), now),
                    raised |-> FALSE, ret |-> Rate(PerMinute(r.total))]

MaxOptimizedClock == 32

OptimizedSteps == {30, 31}

\* two instants of the same minute of different hours
OptimizedNows == {Min(180), Min(240)}

MaxOptimizedBlocks == 2

\* the shapes of blocks on which the two loops take different branches
OptimizedPool ==
    { Block(Min(0), Min(60), 1000, FALSE, FALSE),     \* ended before the window
      Block(Min(90), Min(150), 3000, FALSE, FALSE),   \* half inside the window
      Block(Min(150), NoTime, 600, TRUE, FALSE),      \* active
      Block(BadTime, BadTime, 3000, FALSE, TRUE),     \* gap, unparseable times
      Block(BadTime, NoTime, 600, FALSE, FALSE),      \* unparseable startTime
      Block(Min(200), NoTime, 600, FALSE, FALSE) }    \* starts after 03:00

OptimizedLists == UNION {[1..n -> OptimizedPool] : n \in 0..MaxOptimizedBlocks}

\* one call of the optimized function, with what the original returns for
\* the same arguments
CallOptimizedBurnRate(blocks, current_time) ==
    /\ LET r == OptimizedBurnRate(simple, blocks, current_time, clock) IN
       /\ simple' = r.c
       /\ burn' = [made |-> TRUE, blocks |-> blocks, now |-> current_time,
                   raised |-> r.raised, ret |-> r.ret,
                   fresh |-> DOMAIN simple = {},
                   fn |-> "optimized",
                   original |-> OriginalBurnRate(blocks, current_time)]
    /\ UNCHANGED <<clock, target, lru, lastOp, expired, recency, gets, gcache,
                   fetchVars, resetVars, limit, mon>>

OptimizedTick(d) ==
    /\ clock + d <= MaxOptimizedClock
    /\ clock' = clock + d
    /\ UNCHANGED <<cacheVars, gcache, fetchVars, burn, resetVars, limit, mon>>

OptimizedNext ==
    \/ \E b \in OptimizedLists, t \in OptimizedNows :
          CallOptimizedBurnRate(b, t)
    \/ \E d \in OptimizedSteps : OptimizedTick(d)

(***************************************************************************)
(* get_token_limit of core/data.py and of core/calculations.py.  The       *)
(* blocks argument is given (a list) or None.                              *)
(***************************************************************************)
\* max(valid_tokens)
RECURSIVE MaxOf(_)
MaxOf(S) ==
    IF S = {} THEN 0
    ELSE LET x == CHOOSE x \in S : TRUE IN
         IF S = {x} THEN x ELSE Max(x, MaxOf(S \ {x}))

DataGetTokenLimit_Custom_CountActive(given, blocks) ==
    IF ~given \/ blocks = <<>>
    THEN 7000
    ELSE LET valid == { i \in 1..Len(blocks) : ~blocks[i].isGap }
         IN  IF valid # {}
             THEN MaxOf({ blocks[i].totalTokens : i \in valid })
             ELSE 7000

\* core/data.py, the custom_max branch: the highest totalTokens of the
\* blocks that are neither gap nor active, 7000 when there is none
DataGetTokenLimit_Custom(given, blocks) ==
    IF ~given \/ blocks = <<>>
    THEN 7000
    ELSE LET valid == { i \in 1..Len(blocks) :
                          ~blocks[i].isGap /\ ~blocks[i].isActive }
         IN  IF valid # {}
             THEN MaxOf({ blocks[i].totalTokens : i \in valid })
             ELSE 7000

\* core/config.py TOKEN_LIMITS, with the default of .get(plan, pro)
TokenLimits(plan) ==
    IF plan = "max5" THEN 35000
    ELSE IF plan = "max20" THEN 140000
    ELSE 7000

\* the loop of core/calculations.py get_token_limit: max_tokens starts at 0
\* and rises to every higher totalTokens of a completed block
RECURSIVE MaxTokens(_, _, _)
MaxTokens(blocks, i, max_tokens) ==
    IF i > Len(blocks) THEN max_tokens
    ELSE IF blocks[i].isGap \/ blocks[i].isActive
         THEN MaxTokens(blocks, i + 1, max_tokens)
         ELSE IF blocks[i].totalTokens > max_tokens
              THEN MaxTokens(blocks, i + 1, blocks[i].totalTokens)
              ELSE MaxTokens(blocks, i + 1, max_tokens)

Tier_AtLeast(max_tokens) ==
    IF max_tokens >= 35000 THEN TokenLimits("max20")
    ELSE IF max_tokens >= 7000 THEN TokenLimits("max5")
    ELSE TokenLimits("pro")

\* the tier that accommodates max_tokens
Tier(max_tokens) ==
    IF max_tokens > 35000 THEN TokenLimits("max20")
    ELSE IF max_tokens > 7000 THEN TokenLimits("max5")
    ELSE TokenLimits("pro")

CoreGetTokenLimit(plan, given, blocks) ==
    IF plan = "custom_max" /\ given /\ blocks # <<>>
    THEN Tier(MaxTokens(blocks, 1, 0))
    ELSE TokenLimits(plan)

\* data.py get_token_limit: the highest totalTokens found when it is
\* positive, the pro limit otherwise
LegacyGetTokenLimit(plan, given, blocks) ==
    IF plan = "custom_max" /\ given /\ blocks # <<>>
    THEN LET max_tokens == MaxTokens(blocks, 1, 0) IN
         IF max_tokens > 0 THEN max_tokens ELSE 7000
    ELSE TokenLimits(plan)

MaxLimitBlocks == 2

Plans == {"pro", "max5", "max20", "custom_max", "unknown"}

\* blocks as get_token_limit reads them: totalTokens, isActive, isGap
LimitPool ==
    { Block(NoTime, NoTime, t, FALSE, FALSE) :
        t \in {-100, 0, 7000, 7001, 35000, 35001, 140000, 140001} }
    \cup { Block(NoTime, NoTime, 200000, TRUE, FALSE),
           Block(NoTime, NoTime, 200000, FALSE, TRUE) }

LimitLists == UNION {[1..n -> LimitPool] : n \in 0..MaxLimitBlocks}

CallDataTokenLimit(given, blocks) ==
    /\ limit' = [made |-> TRUE, fn |-> "data", plan |-> "custom_max",
                 given |-> given, blocks |-> blocks,
                 ret |-> DataGetTokenLimit_Custom(given, blocks)]
    /\ UNCHANGED <<clock, cacheVars, gcache, fetchVars, burn, resetVars, mon>>

CallCoreTokenLimit(plan, given, blocks) ==
    /\ limit' = [made |-> TRUE, fn |-> "calculations", plan |-> plan,
                 given |-> given, blocks |-> blocks,
                 ret |-> CoreGetTokenLimit(plan, given, blocks)]
    /\ UNCHANGED <<clock, cacheVars, gcache, fetchVars, burn, resetVars, mon>>

CallLegacyTokenLimit(plan, given, blocks) ==
    /\ limit' = [made |-> TRUE, fn |-> "legacy", plan |-> plan,
                 given |-> given, blocks |-> blocks,
                 ret |-> LegacyGetTokenLimit(plan, given, blocks)]
    /\ UNCHANGED <<clock, cacheVars, gcache, fetchVars, burn, resetVars, mon>>

\* blocks = None is recorded as the empty list with given = FALSE
LimitNext ==
    \/ \E b \in LimitLists : CallDataTokenLimit(TRUE, b)
    \/ CallDataTokenLimit(FALSE, <<>>)
    \/ \E plan \in Plans, b \in LimitLists : CallCoreTokenLimit(plan, TRUE, b)
    \/ \E plan \in Plans : CallCoreTokenLimit(plan, FALSE, <<>>)
    \/ \E plan \in Plans, b \in LimitLists :
          CallLegacyTokenLimit(plan, TRUE, b)
    \/ \E plan \in Plans : CallLegacyTokenLimit(plan, FALSE, <<>>)

(***************************************************************************)
(* app/main.py: main, and app/main_rich.py: main_with_args.  What          *)
(* run_ccusage, calculate_hourly_burn_rate and get_next_reset_time return  *)
(* in a tick are the inputs of the tick; instants are in seconds.          *)
(***************************************************************************)
\* run_ccusage() returned nothing usable
NoData == [given |-> FALSE, blocks |-> <<>>]

Blocks(blocks) == [given |-> TRUE, blocks |-> blocks]

\* lines 37-45: the token limit before the loop
InitialTokenLimit(plan, initial_data) ==
    IF plan = "custom_max"
    THEN IF initial_data.given
         THEN DataGetTokenLimit_Custom(TRUE, initial_data.blocks)
         ELSE PlanLimit("pro")
    ELSE PlanLimit(plan)

\* the index of the first block with isActive, 0 when there is none
ActiveBlock(blocks) ==
    LET active == { i \in 1..Len(blocks) : blocks[i].isActive } IN
    IF active = {} THEN 0
    ELSE CHOOSE i \in active : \A j \in active : i <= j

AutoSwitch_Always(token_limit, plan, tokens_used, blocks) ==
    IF tokens_used > token_limit /\ plan = "pro"
    THEN DataGetTokenLimit_Custom(TRUE, blocks)
    ELSE token_limit

\* lines 76-80: the switch to custom_max when the pro limit is exceeded
AutoSwitch(token_limit, plan, tokens_used, blocks) ==
    IF tokens_used > token_limit /\ plan = "pro"
    THEN LET new_limit == DataGetTokenLimit_Custom(TRUE, blocks) IN
         IF new_limit > token_limit THEN new_limit ELSE token_limit
    ELSE token_limit

FracLess(x, y) == x.n * y.d < y.n * x.d

PredictedEndTime_NoLeftTest(burn_rate, tokens_left, current_time, reset_time) ==
    IF burn_rate.n > 0
    THEN FracAdd(Frac(current_time, 1),
                 FracMul(FracDiv(Frac(tokens_left, 1), burn_rate), Frac(60, 1)))
    ELSE Frac(reset_time, 1)

\* lines 104-109: current_time + timedelta(minutes=tokens_left / burn_rate)
PredictedEndTime(burn_rate, tokens_left, current_time, reset_time) ==
    IF burn_rate.n > 0 /\ tokens_left > 0
    THEN FracAdd(Frac(current_time, 1),
                 FracMul(FracDiv(Frac(tokens_left, 1), burn_rate), Frac(60, 1)))
    ELSE Frac(reset_time, 1)

\* main.py line 216
PlainWarning(predicted_end_time, reset_time, burn_rate) ==
    FracLess(predicted_end_time, Frac(reset_time, 1))

RichWarning_RateOnly(predicted_end_time, reset_time, burn_rate) ==
    burn_rate.n > 0

\* main_rich.py line 163
RichWarning(predicted_end_time, reset_time, burn_rate) ==
    FracLess(predicted_end_time, Frac(reset_time, 1)) /\ burn_rate.n > 0

\* the prediction and the three notifications of a pass, from the token
\* limit as it is after the switch
Warnings(plan, tokens_used, token_limit, burn_rate, current_time, reset_time) ==
    LET tokens_left == token_limit - tokens_used
        predicted_end_time ==
            PredictedEndTime(burn_rate, tokens_left, current_time, reset_time)
    IN  [predicted_end_time |-> predicted_end_time,
         switch |-> tokens_used > 7000 /\ plan = "pro" /\ token_limit > 7000,
         exceed |-> tokens_used > token_limit,
         plain |-> PlainWarning(predicted_end_time, reset_time, burn_rate),
         rich |-> RichWarning(predicted_end_time, reset_time, burn_rate)]

\* one pass of the while loop with token limit token_limit: the new token
\* limit and what the pass computed
LoopPass(token_limit, plan, ccusage_data, burn_rate, current_time, reset_time) ==
    IF ~ccusage_data.given
    THEN [token_limit |-> token_limit,
          tick |-> [NoTick EXCEPT !.kind = "no data", !.before = token_limit]]
    ELSE IF ActiveBlock(ccusage_data.blocks) = 0
    THEN [token_limit |-> token_limit,
          tick |-> [NoTick EXCEPT !.kind = "no active block",
                                  !.before = token_limit]]
    ELSE LET blocks == ccusage_data.blocks
             tokens_used == blocks[ActiveBlock(blocks)].totalTokens
             limit2 == AutoSwitch(token_limit, plan, tokens_used, blocks)
             w == Warnings(plan, tokens_used, limit2, burn_rate, current_time,
                           reset_time)
         IN  [token_limit |-> limit2,
              tick |-> [kind |-> "shown", tokens_used |-> tokens_used,
                        inferred |-> DataGetTokenLimit_Custom(TRUE, blocks),
                        before |-> token_limit,
                        burn_rate |-> burn_rate, now |-> current_time,
                        reset_time |-> reset_time,
                        predicted_end_time |-> w.predicted_end_time,
                        switch |-> w.switch, exceed |-> w.exceed,
                        plain |-> w.plain, rich |-> w.rich]]

Except_InterruptOnly(m, kind) ==
    IF m.ui = "plain" /\ kind = "KeyboardInterrupt"
    THEN [m EXCEPT !.pc = "exited", !.raised = kind, !.cursor = "visible",
                   !.shows = @ + 1, !.exit = "status 0"]
    ELSE [m EXCEPT !.pc = "exited", !.raised = kind,
                   !.exit = IF kind = "KeyboardInterrupt"
                            THEN "status 0" ELSE "propagated"]

\* main.py lines 249-259 and main_rich.py lines 190-192: the except clauses
Except(m, kind) ==
    IF m.ui = "plain"
    THEN [m EXCEPT !.pc = "exited", !.raised = kind, !.cursor = "visible",
                   !.shows = @ + 1,
                   !.exit = IF kind = "KeyboardInterrupt"
                            THEN "status 0" ELSE "propagated"]
    ELSE [m EXCEPT !.pc = "exited", !.raised = kind,
                   !.exit = IF kind = "KeyboardInterrupt"
                            THEN "status 0" ELSE "propagated"]

MaxMonitorBlocks == 2

MonitorPlans == {"pro", "max5", "custom_max"}

\* active blocks below and above the pro and max5 limits, completed blocks
\* from which custom_max infers a limit
MonitorPool ==
    { Block(NoTime, NoTime, t, TRUE, FALSE) : t \in {5000, 8000, 40000} }
    \cup { Block(NoTime, NoTime, t, FALSE, FALSE) : t \in {0, 9000, 36000} }

MonitorData ==
    {NoData} \cup
    { Blocks(b) : b \in UNION {[1..n -> MonitorPool] : n \in 0..MaxMonitorBlocks} }

\* tokens per minute
MonitorRates == {Zero, Frac(100, 3), Frac(100, 1)}

MonitorNow == 10800

\* seconds from now to the reset time
MonitorResets == {3600, 18000}

Raisable == {"KeyboardInterrupt", "Exception"}

\* the points inside the try block of main.py
TryPoints == {"clear_screen", "hide_cursor", "loop"}

MonitorStart(ui, plan, initial_data) ==
    /\ mon.pc = "start"
    /\ mon' = [mon EXCEPT !.ui = ui, !.plan = plan,
                          !.token_limit = InitialTokenLimit(plan, initial_data),
                          !.pc = IF ui = "plain" THEN "clear_screen" ELSE "loop"]
    /\ UNCHANGED <<clock, cacheVars, gcache, fetchVars, burn, resetVars, limit>>

MonitorClearScreen ==
    /\ mon.pc = "clear_screen"
    /\ mon' = [mon EXCEPT !.pc = "hide_cursor"]
    /\ UNCHANGED <<clock, cacheVars, gcache, fetchVars, burn, resetVars, limit>>

MonitorHideCursor ==
    /\ mon.pc = "hide_cursor"
    /\ mon' = [mon EXCEPT !.pc = "loop", !.cursor = "hidden"]
    /\ UNCHANGED <<clock, cacheVars, gcache, fetchVars, burn, resetVars, limit>>

MonitorTick(ccusage_data, burn_rate, to_reset) ==
    /\ mon.pc = "loop"
    /\ LET r == LoopPass(mon.token_limit, mon.plan, ccusage_data, burn_rate,
                         MonitorNow, MonitorNow + to_reset) IN
       mon' = [mon EXCEPT !.token_limit = r.token_limit, !.tick = r.tick]
    /\ UNCHANGED <<clock, cacheVars, gcache, fetchVars, burn, resetVars, limit>>

\* KeyboardInterrupt or an Exception raised at a point inside the try block
MonitorRaise(kind) ==
    /\ mon.pc \in TryPoints
    /\ mon' = Except(mon, kind)
    /\ UNCHANGED <<clock, cacheVars, gcache, fetchVars, burn, resetVars, limit>>

MonitorNext ==
    \/ \E ui \in {"plain", "rich"}, plan \in MonitorPlans, d \in MonitorData :
          MonitorStart(ui, plan, d)
    \/ MonitorClearScreen
    \/ MonitorHideCursor
    \/ \E d \in MonitorData, r \in MonitorRates, t \in MonitorResets :
          MonitorTick(d, r, t)
    \/ \E kind \in Raisable : MonitorRaise(kind)

(***************************************************************************)
(* core/calculations.py: get_next_reset_time.  A datetime is [inst, off]:  *)
(* the instant in seconds since the epoch (day 0, 00:00:00 UTC) and the    *)
(* UTC offset of its tzinfo; its wall-clock reading is inst + off.         *)
(* tzinfo == timezone.utc is off = 0 of a fixed-offset timezone.           *)
(***************************************************************************)
Day == 86400

Hour == 3600

Wall(dt) == dt.inst + dt.off

HourOf(wall) == (wall % Day) \div Hour

MinuteOf(wall) == (wall % Hour) \div 60

SecondOf(wall) == wall % 60

DateOf(wall) == wall \div Day

\* datetime.combine(date, time(hour=h)): a wall-clock reading
Combine(date, h) == date * Day + h * Hour

\* pytz.timezone(name), with the fallback of the except clause
KnownZones == {"UTC", "Europe/Warsaw", "Asia/Tokyo"}

ResolveZone(timezone_str) ==
    IF timezone_str \in KnownZones THEN timezone_str ELSE "Europe/Warsaw"

\* Europe/Warsaw switches from UTC+1 to UTC+2 on day 1 at 01:00 UTC
\* (the last Sunday of March: 02:00 local becomes 03:00)
DstStart == 1 * Day + 1 * Hour

ZoneOffsets(zone) ==
    IF zone = "UTC" THEN {0}
    ELSE IF zone = "Asia/Tokyo" THEN {9 * Hour}
    ELSE {1 * Hour, 2 * Hour}

ZoneOffset(zone, inst) ==
    IF zone = "UTC" THEN 0
    ELSE IF zone = "Asia/Tokyo" THEN 9 * Hour
    ELSE IF inst < DstStart THEN 1 * Hour ELSE 2 * Hour

\* current_time.astimezone(target_tz)
AsTimezone(dt, zone) == [inst |-> dt.inst, off |-> ZoneOffset(zone, dt.inst)]

\* target_tz.localize(naive, is_dst=None): the instant whose reading in the
\* zone is wall; raises when no instant or more than one reads so
Localize(zone, wall) ==
    LET offs == {o \in ZoneOffsets(zone) : ZoneOffset(zone, wall - o) = o} IN
    IF Cardinality(offs) = 1
    THEN LET o == CHOOSE o \in offs : TRUE IN
         [raised |-> FALSE, dt |-> [inst |-> wall - o, off |-> o]]
    ELSE [raised |-> TRUE, dt |-> [inst |-> 0, off |-> 0]]

\* next_reset.isoformat() and datetime.fromisoformat(cached)
IsoFormat(dt) == [tag |-> "iso", a |-> Wall(dt), b |-> dt.off]

FromIsoFormat(v) == [inst |-> v.a - v.b, off |-> v.b]

DefaultResetHours == <<4, 9, 14, 18, 23>>

ResetHours(custom_reset_hour) ==
    IF custom_reset_hour # NoHour THEN <<custom_reset_hour>> ELSE DefaultResetHours

\* current_hour < hour or (current_hour == hour and current_minute == 0)
Qualifies(current_hour, current_minute, hour) ==
    current_hour < hour \/ (current_hour = hour /\ current_minute = 0)

\* the for loop: the first qualifying hour, NoHour when there is none
RECURSIVE FindNextResetHour(_, _, _, _)
FindNextResetHour(reset_hours, i, current_hour, current_minute) ==
    IF i > Len(reset_hours) THEN NoHour
    ELSE IF Qualifies(current_hour, current_minute, reset_hours[i])
         THEN reset_hours[i]
         ELSE FindNextResetHour(reset_hours, i + 1, current_hour, current_minute)

\* current_time.tzinfo == timezone.utc and timezone_str == "Europe/Warsaw"
StaysInUtc(current_time, timezone_str) ==
    current_time.off = 0 /\ timezone_str = "Europe/Warsaw"

\* the wall-clock reading of now on which the schedule is evaluated
TargetTime(current_time, timezone_str) ==
    IF StaysInUtc(current_time, timezone_str)
    THEN current_time
    ELSE AsTimezone(current_time, ResolveZone(timezone_str))

\* lines 102-158: the computation without the result cache
NextResetUncached(current_time, custom_reset_hour, timezone_str) ==
    LET target_time == TargetTime(current_time, timezone_str)
        reset_hours == ResetHours(custom_reset_hour)
        found == FindNextResetHour(reset_hours, 1, HourOf(Wall(target_time)),
                                   MinuteOf(Wall(target_time)))
        next_reset_hour == IF found = NoHour THEN reset_hours[1] ELSE found
        next_reset_date == IF found = NoHour
                           THEN DateOf(Wall(target_time)) + 1
                           ELSE DateOf(Wall(target_time))
        wall == Combine(next_reset_date, next_reset_hour)
        next_reset == IF StaysInUtc(current_time, timezone_str)
                      THEN [raised |-> FALSE, dt |-> [inst |-> wall, off |-> 0]]
                      ELSE Localize(ResolveZone(timezone_str), wall)
    IN  IF next_reset.raised
        THEN next_reset
        ELSE IF ~StaysInUtc(current_time, timezone_str)
             THEN [raised |-> FALSE,
                   dt |-> [inst |-> next_reset.dt.inst, off |-> current_time.off]]
             ELSE next_reset

HourText(h) == IF h = NoHour THEN "None" ELSE ToString(h)

\* f"reset_time_{current_time.hour}_{timezone_str}_{custom_reset_hour}"
ResetKey(current_time, custom_reset_hour, timezone_str) ==
    "reset_time_" \o ToString(HourOf(Wall(current_time))) \o "_" \o timezone_str
        \o "_" \o HourText(custom_reset_hour)

ResetTtl == 300

Zone(zone) == [tag |-> "tz", a |-> IF zone = "UTC" THEN 0
                                   ELSE IF zone = "Asia/Tokyo" THEN 1 ELSE 2,
               b |-> 0]

\* lines 107-115: the timezone object is looked up in, and added to, the cache
TimezoneLookup(c, timezone_str, now) ==
    IF "timezone_" \o timezone_str \in Keys(c.cache)
    THEN LRUCache_get(c, "timezone_" \o timezone_str, 0, now).c
    ELSE LRUCache_set(LRUCache_get(c, "timezone_" \o timezone_str, 0, now).c,
                      "timezone_" \o timezone_str,
                      Zone(ResolveZone(timezone_str)), now)

\* get_next_reset_time on cache c at time.time() = now
GetNextResetTime(c, current_time, custom_reset_hour, timezone_str, now) ==
    LET key == ResetKey(current_time, custom_reset_hour, timezone_str)
        cached == LRUCache_get(c, key, ResetTtl, now)
    IN  IF cached.ret # None
        THEN [c |-> cached.c, raised |-> FALSE, dt |-> FromIsoFormat(cached.ret)]
        ELSE LET c1 == IF StaysInUtc(current_time, timezone_str)
                       THEN cached.c
                       ELSE TimezoneLookup(cached.c, timezone_str, now)
                 r == NextResetUncached(current_time, custom_reset_hour, timezone_str)
             IN  IF r.raised
                 THEN [c |-> c1, raised |-> TRUE, dt |-> r.dt]
                 ELSE [c |-> LRUCache_set(c1, key, IsoFormat(r.dt), now),
                       raised |-> FALSE, dt |-> r.dt]

(***************************************************************************)
(* The reset-time calls as actions: the monitor calls get_next_reset_time  *)
(* with now = datetime.now(tz) and its two arguments, tick after tick.     *)
(***************************************************************************)
MaxResetRequests == 3

MaxResetElapsed == 360

ResetSteps == {60, 300}

MaxResetDay == 1

StartInstants ==
    { d * Day + h * Hour + m * 60 + sec :
        d \in 0..MaxResetDay, h \in 0..23, m \in {0, 30}, sec \in {0, 30} }

CustomHours == {NoHour, 0, 2, 14, 23}

TimezoneStrs == {"UTC", "Europe/Warsaw", "Asia/Tokyo", "Invalid/Timezone"}

NowOffsets == {0, 1 * Hour}

Now == [inst |-> clock, off |-> args.now_offset]

CallGetNextResetTime ==
    /\ gcache.hits + gcache.misses < MaxResetRequests
    /\ LET r == GetNextResetTime(gcache, Now, args.reset_hour, args.timezone, clock) IN
       /\ gcache' = r.c
       /\ reset' = [made |-> TRUE, now |-> clock, raised |-> r.raised,
                    ret |-> r.dt.inst, fresh |-> gcache.cache = <<>>,
                    first |-> IF reset.made THEN reset.first ELSE clock]
    /\ UNCHANGED <<clock, cacheVars, fetchVars, burn, args, limit, mon>>

ResetTick(d) ==
    /\ reset.made
    /\ clock + d <= reset.first + MaxResetElapsed
    /\ clock' = clock + d
    /\ UNCHANGED <<cacheVars, gcache, fetchVars, burn, resetVars, limit, mon>>

(***************************************************************************)
(* The cache operations as actions.  target says which of the two          *)
(* instances is exercised; lastOp records the operation, its arguments,    *)
(* what was stored for the key before it, and what it returned.            *)
(***************************************************************************)
NoOp ==
    [op |-> "none", key |-> "", ttl |-> 0, value |-> None, ret |-> None,
     had |-> FALSE,
     old |-> None, stale |-> FALSE, evicted |-> {}]

\* what is stored for key in the instance under test (None when absent)
Stored(key) ==
    IF target = "LRUCache"
    THEN IF key \in Keys(lru.cache) THEN Entry(lru.cache, key).value ELSE None
    ELSE IF key \in DOMAIN simple THEN simple[key].value ELSE None

StoredKeys == IF target = "LRUCache" THEN Keys(lru.cache) ELSE DOMAIN simple

StoredAt(key) ==
    IF target = "LRUCache"
    THEN Entry(lru.cache, key).timestamp
    ELSE simple[key].timestamp

\* key is stored and more than ttl > 0 has elapsed since it was last set
IsStale(key, ttl) ==
    key \in StoredKeys /\ ttl > 0 /\ clock - StoredAt(key) > ttl

Observe(op, key, ttl, value, ret, after) ==
    [op |-> op, key |-> key, ttl |-> ttl, value |-> value, ret |-> ret,
     had |-> key \in StoredKeys,
     old |-> Stored(key),
     stale |-> IsStale(key, ttl),
     evicted |-> StoredKeys \ after]

\* bookkeeping of uses: key becomes the most recently used one
Used(rec, key) == Append(SelectSeq(rec, LAMBDA k : k # key), key)

Kept(rec, keys) == SelectSeq(rec, LAMBDA k : k \in keys)

LruGet(key, ttl) ==
    /\ target = "LRUCache"
    /\ lru.hits + lru.misses < MaxGets
    /\ LET r == LRUCache_get(lru, key, ttl, clock) IN
       /\ lru' = r.c
       /\ lastOp' = Observe("get", key, ttl, None, r.ret, Keys(r.c.cache))
       /\ expired' = IF IsStale(key, ttl) THEN expired \cup {key} ELSE expired
       /\ recency' = IF key \in Keys(lru.cache) /\ ~IsStale(key, ttl)
                     THEN Used(recency, key)
                     ELSE Kept(recency, Keys(r.c.cache))
    /\ gets' = gets + 1
    /\ UNCHANGED <<clock, target, simple, gcache, fetchVars, burn, resetVars, limit, mon>>

LruSet(key, value) ==
    /\ target = "LRUCache"
    /\ LET c == LRUCache_set(lru, key, value, clock) IN
       /\ lru' = c
       /\ lastOp' = Observe("set", key, 0, value, None, Keys(c.cache))
       /\ recency' = Kept(Used(recency, key), Keys(c.cache))
    /\ expired' = expired \ {key}
    /\ UNCHANGED <<clock, target, simple, gets, gcache, fetchVars, burn, resetVars, limit, mon>>

LruClear ==
    /\ target = "LRUCache"
    /\ lru' = LRUCache_clear(lru)
    /\ lastOp' = Observe("clear", "", 0, None, None, {})
    /\ recency' = <<>>
    /\ gets' = 0
    /\ UNCHANGED <<clock, target, simple, expired, gcache, fetchVars, burn, resetVars, limit, mon>>

LruCleanup(ttl) ==
    /\ target = "LRUCache"
    /\ LET c == LRUCache_cleanup_expired(lru, ttl, clock) IN
       /\ lru' = c
       /\ lastOp' = Observe("cleanup_expired", "", ttl, None, None, Keys(c.cache))
       /\ recency' = Kept(recency, Keys(c.cache))
    /\ UNCHANGED <<clock, target, simple, expired, gets, gcache, fetchVars, burn, resetVars, limit, mon>>

CacheGet(key, ttl) ==
    /\ target = "Cache"
    /\ LET r == Cache_get(simple, key, ttl, clock) IN
       /\ simple' = r.c
       /\ lastOp' = Observe("get", key, ttl, None, r.ret, DOMAIN r.c)
       /\ expired' = IF IsStale(key, ttl) THEN expired \cup {key} ELSE expired
    /\ UNCHANGED <<clock, target, lru, recency, gets, gcache, fetchVars, burn, resetVars, limit, mon>>

CacheSet(key, value) ==
    /\ target = "Cache"
    /\ LET d == Cache_set(simple, key, value, clock) IN
       /\ simple' = d
       /\ lastOp' = Observe("set", key, 0, value, None, DOMAIN d)
    /\ expired' = expired \ {key}
    /\ UNCHANGED <<clock, target, lru, recency, gets, gcache, fetchVars, burn, resetVars, limit, mon>>

CacheClear ==
    /\ target = "Cache"
    /\ simple' = Cache_clear(simple)
    /\ lastOp' = Observe("clear", "", 0, None, None, {})
    /\ UNCHANGED <<clock, target, lru, expired, recency, gets, gcache, fetchVars, burn, resetVars, limit, mon>>

\* time passes between two operations
Tick ==
    /\ clock < MaxClock
    /\ clock' = clock + 1
    /\ UNCHANGED <<cacheVars, gcache, fetchVars, burn, resetVars, limit, mon>>

CacheInit ==
    /\ clock = 0
    /\ target \in {"LRUCache", "Cache"}
    /\ \E n \in 1..MaxSize : lru = LRUCache(n)
    /\ simple = [k \in {} |-> None]
    /\ lastOp = NoOp
    /\ expired = {}
    /\ recency = <<>>
    /\ gets = 0
    /\ FetchIdle
    /\ args = DefaultArgs

CacheNext ==
    \/ \E k \in CacheKeys, t \in CacheTtls : LruGet(k, t)
    \/ \E k \in CacheKeys, v \in CacheValues : LruSet(k, v)
    \/ LruClear
    \/ \E t \in CacheTtls : LruCleanup(t)
    \/ \E k \in CacheKeys, t \in CacheTtls : CacheGet(k, t)
    \/ \E k \in CacheKeys, v \in CacheValues : CacheSet(k, v)
    \/ CacheClear
    \/ Tick

SpecCache == CacheInit /\ [][CacheNext]_vars

\* the same operations and, in addition, gets with a negative ttl
NegativeTtlNext ==
    \/ CacheNext
    \/ \E k \in CacheKeys, t \in NegativeTtls : LruGet(k, t)
    \/ \E k \in CacheKeys, t \in NegativeTtls : CacheGet(k, t)

SpecNegativeTtl == CacheInit /\ [][NegativeTtlNext]_vars

FetchInit ==
    /\ clock = 1
    /\ target = "LRUCache"
    /\ lru = LRUCache(1)
    /\ simple = [k \in {} |-> None]
    /\ lastOp = NoOp
    /\ expired = {}
    /\ recency = <<>>
    /\ gets = 0
    /\ FetchIdle
    /\ args = DefaultArgs

FetchNext ==
    \/ \E o \in Outcomes : CallRunCcusage(o)
    \/ CallGetTokenLimit("pro")
    \/ \E d \in FetchSteps : FetchTick(d)

SpecFetch == FetchInit /\ [][FetchNext]_vars

(***************************************************************************)
(* Claims about the upstream fetch                                         *)
(***************************************************************************)
\* C1: a run_ccusage call made less than 30 s after the last failed upstream
\* fetch does not invoke the upstream and returns the last good snapshot
\* (None when no fetch has succeeded).
C1_Cooldown ==
    (call.made /\ call.priorFail >= 0 /\ call.t - call.priorFail < 30)
        => (~call.invoked /\ call.ret = call.priorGood)

\* C1 witness: a call 29 s after a failure, with an earlier success, was
\* answered from the fallback snapshot without invoking the upstream.
C1_Witness ==
    /\ call.made /\ call.priorFail >= 0
    /\ call.t - call.priorFail = 29
    /\ call.priorGood # None
    /\ ~call.invoked /\ call.ret = call.priorGood

\* C2: a failed upstream fetch (timeout, not found, non-zero exit, malformed
\* payload) makes run_ccusage return the last good snapshot whenever one
\* exists, and None only when no fetch has ever succeeded.
C2_FailureReturnsSnapshot ==
    (call.made /\ call.invoked /\ call.kind \in Failures)
        => call.ret = call.priorGood

SpecBurn == FetchInit /\ [][BurnNext]_vars

ResetInit ==
    /\ clock \in StartInstants
    /\ target = "LRUCache"
    /\ lru = LRUCache(1)
    /\ simple = [k \in {} |-> None]
    /\ lastOp = NoOp
    /\ expired = {}
    /\ recency = <<>>
    /\ gets = 0
    /\ FetchIdle
    /\ args \in [reset_hour : CustomHours, timezone : TimezoneStrs,
                 now_offset : NowOffsets]

ResetNext ==
    \/ CallGetNextResetTime
    \/ \E d \in ResetSteps : ResetTick(d)

SpecReset == ResetInit /\ [][ResetNext]_vars

SpecLimit == FetchInit /\ [][LimitNext]_vars

SpecOptimized == FetchInit /\ [][OptimizedNext]_vars

SpecMonitor == FetchInit /\ [][MonitorNext]_vars

ErrNext ==
    \/ \E o \in Outcomes : ErrCallRunCcusage(o)
    \/ \E d \in ErrSteps : ErrTick(d)

SpecErr == FetchInit /\ [][ErrNext]_vars

TtlNext ==
    \/ \E o \in Outcomes : TtlCallRunCcusage(o)
    \/ \E d \in TtlSteps : TtlTick(d)

SpecTtl == FetchInit /\ [][TtlNext]_vars

(***************************************************************************)
(* Claims about the caches                                                 *)
(***************************************************************************)
\* the cache operation a step performs (NoOp for a step that only moves time)
StepOp == IF clock' # clock THEN NoOp ELSE lastOp'

\* C3: in both caches a get(k, ttl = T > 0) issued more than T after k was
\* last set returns None and removes the entry; until k is set again every
\* get of k (ttl = 0 included) returns None.
C3_ExpiredGetEvicts ==
    /\ (lastOp.op = "get" /\ lastOp.stale)
          => (lastOp.ret = None /\ lastOp.key \notin StoredKeys)
    /\ \A k \in expired : k \notin StoredKeys
    /\ (lastOp.op = "get" /\ lastOp.key \in expired) => lastOp.ret = None

\* C3 witness: the LRUCache answered a get(k, ttl = 0) for a key that an
\* earlier get with a positive ttl had found expired.
C3_Witness ==
    /\ target = "LRUCache"
    /\ lastOp.op = "get" /\ lastOp.ttl = 0
    /\ lastOp.key \in expired
    /\ lastOp.ret = None

\* a step stores what set was given, and get(k, ttl = 0) returns what is stored
RoundTrip ==
    /\ lastOp.op = "set" =>
          (lastOp.key \in StoredKeys /\ Stored(lastOp.key) = lastOp.value)
    /\ (lastOp.op = "get" /\ lastOp.ttl = 0 /\ lastOp.had)
          => lastOp.ret = lastOp.old

\* the steps the claim lets change the answer of get(k, ttl = 0)
MayChange(k) ==
    \/ StepOp.op = "clear"
    \/ StepOp.op = "set" /\ StepOp.key = k
    \/ StepOp.op = "get" /\ StepOp.key = k /\ StepOp.stale

\* the further steps of an LRUCache that change it: the eviction of the
\* least recently used key by the insertion of a new key into a full cache,
\* and cleanup_expired(ttl > 0) when k is older than ttl
MayChangeLRU(k) ==
    /\ target = "LRUCache"
    /\ \/ /\ StepOp.op = "set" /\ ~StepOp.had
          /\ Len(lru.cache) >= lru.max_size
          /\ k = Head(recency)
       \/ /\ StepOp.op = "cleanup_expired"
          /\ IsStale(k, StepOp.ttl)

StillStored(k) == k \in StoredKeys' /\ Stored(k)' = Stored(k)

\* C4 as claimed: after set(k, v) only clear(), a later set(k, .) or an
\* expiring get(k, ttl > 0) changes what get(k, ttl = 0) returns, in the
\* Cache and in the LRUCache.
C4_Original ==
    [][RoundTrip' /\ \A k \in StoredKeys : MayChange(k) \/ StillStored(k)]_vars

\* C4 amended: the same, except that in the LRUCache the answer also changes
\* when k is evicted as the least recently used entry by the insertion of a
\* new key into a full cache, or removed by cleanup_expired as older than ttl.
C4_RoundTrip ==
    [][RoundTrip' /\ \A k \in StoredKeys :
            MayChange(k) \/ MayChangeLRU(k) \/ StillStored(k)]_vars

\* C4 witness: the LRUCache returned the stored value for get(k, ttl = 0)
\* after time had passed and another key had been set in between.
C4_Witness ==
    /\ target = "LRUCache"
    /\ lastOp.op = "get" /\ lastOp.ttl = 0 /\ lastOp.had
    /\ lastOp.ret = Val(1)
    /\ clock - Entry(lru.cache, lastOp.key).timestamp >= 2
    /\ Len(lru.cache) = 2

\* C5: an LRUCache never holds more than max_size entries, and a set of a
\* new key into a full cache removes exactly the least recently used key
\* (a successful get and every set count as a use); no other set removes.
C5_Eviction ==
    [][/\ Len(lru.cache)' <= lru.max_size
       /\ (target = "LRUCache" /\ StepOp.op = "set") =>
             Keys(lru.cache)' =
                IF ~StepOp.had /\ Len(lru.cache) >= lru.max_size
                THEN (Keys(lru.cache) \ {Head(recency)}) \cup {StepOp.key}
                ELSE Keys(lru.cache) \cup {StepOp.key}]_vars

\* C5 witness: a set evicted a key that was set after the key a get had
\* refreshed, so insertion order and use order differ.
C5_Witness ==
    /\ target = "LRUCache"
    /\ lru.max_size = 2
    /\ lastOp.op = "set" /\ lastOp.evicted # {}
    /\ lru.hits > 0
    /\ \E i \in 1..Len(lru.cache) :
          lru.cache[i].key # lastOp.key /\ lru.cache[i].timestamp = 0
    /\ clock > 0

(***************************************************************************)
(* Claims about the burn rate                                              *)
(***************************************************************************)
\* the lists with the same blocks as blocks, in every order
Orderings(blocks) ==
    { [i \in 1..Len(blocks) |-> blocks[p[i]]] :
        p \in { q \in [1..Len(blocks) -> 1..Len(blocks)] :
                    \A i, j \in 1..Len(blocks) : q[i] = q[j] => i = j } }

Outcome(r) == IF r.raised THEN None ELSE Rate(r.total)

\* C6: on a fresh cache the burn rate of a list of records is the burn rate
\* of every permutation of it (same now).
C6_OrderIndependent ==
    (burn.made /\ burn.fresh) =>
        \A p \in Orderings(burn.blocks) :
            Outcome(BurnRateUncached(p, burn.now)) = burn.ret

\* C10: every call returns what the uncached algorithm returns for the
\* call's own records and now.
C10_CacheTransparent ==
    (burn.made /\ burn.blocks # <<>>) =>
        burn.ret = Outcome(BurnRateUncached(burn.blocks, burn.now))

(***************************************************************************)
(* Claims about the reset time                                             *)
(***************************************************************************)
\* now, the arguments and the uncached answer of the last call
ResetNow == [inst |-> reset.now, off |-> args.now_offset]

ResetTarget == Wall(TargetTime(ResetNow, args.timezone))

\* the reading of the returned instant on the clock the schedule is
\* evaluated on
ResetReading ==
    IF StaysInUtc(ResetNow, args.timezone)
    THEN reset.ret
    ELSE reset.ret + ZoneOffset(ResolveZone(args.timezone), reset.ret)

OnBoundary ==
    /\ \E i \in 1..Len(ResetHours(args.reset_hour)) :
          HourOf(ResetTarget) = ResetHours(args.reset_hour)[i]
    /\ MinuteOf(ResetTarget) = 0
    /\ SecondOf(ResetTarget) = 0

\* C7: on a fresh cache the returned instant is never earlier than now; it
\* is now only when now is exactly on a scheduled boundary.
C7_NeverEarlier ==
    (reset.made /\ reset.fresh /\ ~reset.raised) =>
        /\ reset.ret >= reset.now
        /\ reset.ret = reset.now => OnBoundary

\* the candidate hours that qualify for (H, M) as the claim states it
Candidates ==
    { i \in 1..Len(ResetHours(args.reset_hour)) :
        \/ HourOf(ResetTarget) < ResetHours(args.reset_hour)[i]
        \/ /\ HourOf(ResetTarget) = ResetHours(args.reset_hour)[i]
           /\ MinuteOf(ResetTarget) = 0 }

FirstCandidate == CHOOSE i \in Candidates : \A j \in Candidates : i <= j

\* C8: on a fresh cache the call returns the first qualifying candidate
\* hour at minute 0 of the same day, or the first candidate hour at minute 0
\* of the next day when none qualifies, read on the evaluating wall clock.
C8_FirstQualifyingHour ==
    (reset.made /\ reset.fresh) =>
        /\ ~reset.raised
        /\ ResetReading =
             IF Candidates # {}
             THEN Combine(DateOf(ResetTarget),
                          ResetHours(args.reset_hour)[FirstCandidate])
             ELSE Combine(DateOf(ResetTarget) + 1, ResetHours(args.reset_hour)[1])

\* C9: every call returns the instant the uncached computation returns for
\* its own now, custom hour and timezone.
C9_CacheTransparent ==
    (reset.made /\ ~reset.raised) =>
        LET r == NextResetUncached(ResetNow, args.reset_hour, args.timezone) IN
        ~r.raised /\ reset.ret = r.dt.inst

(***************************************************************************)
(* Claims about the records of the burn rate                               *)
(***************************************************************************)
Parsed(t) == t # NoTime /\ t # BadTime

Malformed(b) == b.startTime = BadTime \/ b.actualEndTime = BadTime

NotMalformed(b) == ~Malformed(b)

NotGap(b) == ~b.isGap

RemoveAt(blocks, i) == SubSeq(blocks, 1, i - 1) \o SubSeq(blocks, i + 1, Len(blocks))

\* the value of the last call as a fraction
Returned == [n |-> burn.ret.a, d |-> burn.ret.b]

\* C11: a call on a batch with a malformed record (unparseable startTime or
\* actualEndTime) does not raise and returns the value of the batch without
\* the malformed records.
C11_MalformedSkipped ==
    (burn.made /\ \E i \in 1..Len(burn.blocks) : Malformed(burn.blocks[i])) =>
        /\ ~burn.raised
        /\ burn.ret = Outcome(BurnRateUncached(SelectSeq(burn.blocks, NotMalformed),
                                               burn.now))

\* a batch whose timestamps all parse or are absent
WellFormedBatch == \A i \in 1..Len(burn.blocks) : ~Malformed(burn.blocks[i])

\* the seconds of [start, end] inside the trailing hour of now
Overlap(start, end, now) ==
    Max(0, Least(end, now) - Max(start, now - Min(60)))

\* a completed record with its span, and its share as the claim states it:
\* tokens x (overlap / total) / 60
IsCompleted(b) ==
    /\ ~b.isGap /\ ~b.isActive
    /\ Parsed(b.startTime) /\ Parsed(b.actualEndTime)
    /\ b.startTime < b.actualEndTime

CompletedShare(b, now) ==
    Frac(b.totalTokens * Overlap(b.startTime, b.actualEndTime, now),
         (b.actualEndTime - b.startTime) * 60)

\* C13: every completed record of a batch adds its prorated share inside
\* the window divided by 60 minutes to the burn rate of the other records.
C13_CompletedShare ==
    (burn.made /\ WellFormedBatch /\ ~burn.raised) =>
        \A i \in 1..Len(burn.blocks) :
            IsCompleted(burn.blocks[i]) =>
                Returned =
                    FracAdd(BurnRateUncached(RemoveAt(burn.blocks, i), burn.now).total,
                            CompletedShare(burn.blocks[i], burn.now))

\* an active record started before now, and its average rate T / d
IsActiveSince(b, now) ==
    ~b.isGap /\ b.isActive /\ Parsed(b.startTime) /\ b.startTime < now

ActiveRate(b, now) == Frac(b.totalTokens * 60, now - b.startTime)

\* C14: every active record of a batch that started d > 0 minutes before
\* now with T tokens adds T / d to the burn rate of the other records.
C14_ActiveRate ==
    (burn.made /\ WellFormedBatch /\ ~burn.raised) =>
        \A i \in 1..Len(burn.blocks) :
            IsActiveSince(burn.blocks[i], burn.now) =>
                Returned =
                    FracAdd(BurnRateUncached(RemoveAt(burn.blocks, i), burn.now).total,
                            ActiveRate(burn.blocks[i], burn.now))

\* C15: calculate_hourly_burn_rate returns the value of the list without
\* its gap records, and so does core.data.get_token_limit('custom_max', .)
\* for every list.
C15_GapsIgnored ==
    /\ burn.made =>
          burn.ret = Outcome(BurnRateUncached(SelectSeq(burn.blocks, NotGap), burn.now))
    /\ \A b \in LimitLists :
          DataGetTokenLimit_Custom(TRUE, b)
              = DataGetTokenLimit_Custom(TRUE, SelectSeq(b, NotGap))

\* the records the claim lists as contributing nothing
Contributes(b, now) ==
    ~ \/ b.isGap
      \/ b.startTime = NoTime
      \/ Parsed(b.startTime) /\ b.startTime > now
      \/ /\ ~b.isActive /\ Parsed(b.startTime) /\ Parsed(b.actualEndTime)
         /\ \/ b.actualEndTime < now - Min(60)
            \/ b.actualEndTime = b.startTime

\* C16: a call on a batch without a contributing record returns exactly 0
\* without raising, and no call returns a negative rate.
C16_ZeroWhenNothingContributes ==
    /\ (burn.made /\ \A i \in 1..Len(burn.blocks) :
                        ~Contributes(burn.blocks[i], burn.now)) =>
          ~burn.raised /\ burn.ret = Rate(Zero)
    /\ (burn.made /\ ~burn.raised) => burn.ret.a >= 0 /\ burn.ret.b > 0

(***************************************************************************)
(* Claims about the timezone of the reset time                             *)
(***************************************************************************)
\* C12: no get_next_reset_time call raises.
C12_NeverRaises == reset.made => ~reset.raised

\* the boundary the schedule gives for a wall-clock reading: the first
\* candidate hour h with H < h or (H = h and M = 0) on the same day, else
\* the first candidate hour on the next day
BoundaryOn(wall) ==
    LET hours == ResetHours(args.reset_hour)
        c == { i \in 1..Len(hours) :
                 \/ HourOf(wall) < hours[i]
                 \/ HourOf(wall) = hours[i] /\ MinuteOf(wall) = 0 }
    IN  IF c # {}
        THEN Combine(DateOf(wall), hours[CHOOSE i \in c : \A j \in c : i <= j])
        ELSE Combine(DateOf(wall) + 1, hours[1])

\* the reading of an instant on the wall clock of a zone
ReadingIn(zone, inst) == inst + ZoneOffset(zone, inst)

\* C17: on a fresh cache a returning call with a known timezone returns the
\* boundary of the schedule evaluated on the wall clock of that timezone,
\* also when now is in UTC and the timezone is Europe/Warsaw.
C17_EvaluatedInTargetZone ==
    (reset.made /\ reset.fresh /\ ~reset.raised /\ args.timezone \in KnownZones) =>
        ReadingIn(args.timezone, reset.ret)
            = BoundaryOn(ReadingIn(args.timezone, reset.now))

\* C18: a call with an unrecognized timezone does not raise and returns the
\* boundary of the schedule evaluated on the Europe/Warsaw wall clock.
C18_UnknownZoneFallsBack ==
    (reset.made /\ args.timezone \notin KnownZones) =>
        /\ ~reset.raised
        /\ ReadingIn("Europe/Warsaw", reset.ret)
               = BoundaryOn(ReadingIn("Europe/Warsaw", reset.now))

(***************************************************************************)
(* Claims about the token limit                                            *)
(***************************************************************************)
\* the totalTokens of the records of the last call that are neither gap
\* nor active
Completed ==
    { limit.blocks[i].totalTokens :
        i \in { j \in 1..Len(limit.blocks) :
                  ~limit.blocks[j].isGap /\ ~limit.blocks[j].isActive } }

Tiers == {7000, 35000, 140000}

ObservedMax == IF Completed = {} THEN 0 ELSE CHOOSE m \in Completed : \A t \in Completed : t <= m

CustomMaxCall ==
    /\ limit.made /\ limit.fn = "calculations" /\ limit.plan = "custom_max"
    /\ limit.given /\ limit.blocks # <<>>

\* C20 as stated: core.calculations.get_token_limit('custom_max', records)
\* is the smallest tier ceiling that is at least the observed maximum, and
\* is never below it.
C20_Original ==
    CustomMaxCall =>
        /\ limit.ret \in Tiers
        /\ limit.ret >= ObservedMax
        /\ \A t \in Tiers : t >= ObservedMax => limit.ret <= t

\* C20 amended: the result is the smallest tier ceiling that is at least
\* the observed maximum when there is one, and the highest ceiling 140000
\* when the observed maximum exceeds every ceiling.
C20_SmallestTier ==
    CustomMaxCall =>
        /\ limit.ret \in Tiers
        /\ IF ObservedMax <= 140000
           THEN /\ limit.ret >= ObservedMax
                /\ \A t \in Tiers : t >= ObservedMax => limit.ret <= t
           ELSE limit.ret = 140000

C20_Witness ==
    /\ CustomMaxCall
    /\ ObservedMax = 7001
    /\ limit.ret = 35000
    /\ \E i \in 1..Len(limit.blocks) : limit.blocks[i].isActive

(***************************************************************************)
(* Claims about the monitor loop                                           *)
(***************************************************************************)
AllWarnings == {"over-quota", "plan-auto-upgrade", "exhaustion-before-reset"}

\* the warnings raised by the plain and by the rich loop
Raised(w, ui) ==
    (IF w.exceed THEN {"over-quota"} ELSE {})
    \cup (IF w.switch THEN {"plan-auto-upgrade"} ELSE {})
    \cup (IF (ui = "plain" /\ w.plain) \/ (ui = "rich" /\ w.rich)
          THEN {"exhaustion-before-reset"} ELSE {})

\* tick inputs (tokensUsed, quota, rate, now, resetInstant, plan)
TickInputs ==
    [tokens_used : {5000, 8000, 40000}, token_limit : {7000, 9000, 36000},
     burn_rate : MonitorRates, to_reset : MonitorResets,
     plan : {"pro", "max5"}]

Produced(S, ui) ==
    \E i \in TickInputs :
        Raised(Warnings(i.plan, i.tokens_used, i.token_limit, i.burn_rate,
                        MonitorNow, MonitorNow + i.to_reset), ui) = S

\* C23 as stated: each of the 8 subsets of the three warnings is produced
\* by the warning logic of the running loop for some tick input.
C23_Original ==
    mon.pc = "loop" => \A S \in SUBSET AllWarnings : Produced(S, mon.ui)

\* C23 amended: the subsets produced for some tick input are the 6 that do
\* not hold both over-quota and exhaustion-before-reset; no tick raises
\* these two together.
C23_Independent ==
    /\ mon.pc = "loop" =>
          \A S \in SUBSET AllWarnings :
              Produced(S, mon.ui) <=>
                  ~({"over-quota", "exhaustion-before-reset"} \subseteq S)
    /\ mon.tick.kind = "shown" =>
          ~(mon.tick.exceed /\ (mon.tick.plain \/ mon.tick.rich))

\* C23 witness: a tick of the loop raised over-quota together with
\* plan-auto-upgrade after the switch to an inferred limit.
C23_Witness ==
    /\ mon.tick.kind = "shown"
    /\ Raised(mon.tick, mon.ui) = {"over-quota", "plan-auto-upgrade"}
    /\ mon.token_limit = 9000

\* C24: in every tick the exhaustion-before-reset warning is raised exactly
\* when rate > 0 and predictedExhaustion < resetInstant, predictedExhaustion
\* being now + tokensLeft / rate minutes when rate > 0 and tokensLeft > 0
\* and resetInstant otherwise; the plain and the rich loop raise it for the
\* same inputs.
C24_ExhaustionWarning ==
    mon.tick.kind = "shown" =>
        LET t == mon.tick
            tokensLeft == mon.token_limit - t.tokens_used
            estimate == t.burn_rate.n > 0 /\ tokensLeft > 0
            \* now + tokensLeft / rate minutes < resetInstant, in seconds
            before == tokensLeft * 60 * t.burn_rate.d
                          < (t.reset_time - t.now) * t.burn_rate.n
            expected == t.burn_rate.n > 0 /\ estimate /\ before
        IN  /\ t.plain = expected
            /\ t.rich = expected

C24_Witness ==
    /\ mon.tick.kind = "shown"
    /\ mon.tick.plain /\ mon.tick.rich
    /\ mon.tick.burn_rate = Frac(100, 3)
    /\ mon.token_limit - mon.tick.tokens_used = 2000
    /\ mon.tick.reset_time - mon.tick.now = 18000

\* C28: in app.main.main, every way of leaving the try block, by a user
\* interrupt or by another exception at any point, calls show_cursor before
\* the process exits with status 0 (interrupt) or the exception propagates,
\* so the cursor is hidden only inside the try block.
C28_CursorRestored ==
    [][/\ (mon.ui = "plain" /\ mon.pc \in TryPoints /\ mon'.pc \notin TryPoints) =>
             /\ mon'.shows = mon.shows + 1
             /\ mon'.cursor = "visible"
             /\ mon'.exit = IF mon'.raised = "KeyboardInterrupt"
                            THEN "status 0" ELSE "propagated"
       /\ mon'.cursor = "hidden" => mon'.pc = "loop"]_vars

C28_Witness ==
    /\ mon.ui = "plain" /\ mon.pc = "exited"
    /\ mon.raised = "Exception" /\ mon.exit = "propagated"
    /\ mon.tick.kind = "shown"
    /\ mon.shows = 1 /\ mon.cursor = "visible"

\* C29: over the ticks the quota of the loop never decreases: it changes
\* only in a tick where the plan is 'pro' and the tokens of the first active
\* record exceed the quota, and then to a strictly larger inferred limit;
\* for every other plan and in every tick without data or without an active
\* record it keeps its value.
C29_QuotaNeverDecreases ==
    [][mon.pc = "loop" =>
         /\ mon'.token_limit >= mon.token_limit
         /\ mon'.token_limit # mon.token_limit =>
               /\ mon.plan = "pro"
               /\ mon'.tick.kind = "shown"
               /\ mon'.tick.tokens_used > mon.token_limit
               /\ mon'.token_limit = mon'.tick.inferred
               /\ mon'.token_limit > mon.token_limit]_vars

C29_Witness ==
    /\ mon.pc = "loop" /\ mon.plan = "pro"
    /\ mon.tick.kind = "shown"
    /\ mon.tick.before = 9000 /\ mon.token_limit = 36000
    /\ mon.tick.tokens_used = 40000

(***************************************************************************)
(* Claims about the optimized burn rate                                    *)
(***************************************************************************)
\* C27: every call of calculations_optimized.calculate_hourly_burn_rate, in
\* any sequence of calls, returns what calculations.calculate_hourly_burn_rate
\* returns for the same records and now (and raises when it raises).
C27_OptimizedEquivalent ==
    (burn.made /\ burn.fn = "optimized") =>
        /\ burn.raised = burn.original.raised
        /\ burn.ret = burn.original.ret

(***************************************************************************)
(* Claims about negative TTLs and the statistics of LRUCache               *)
(***************************************************************************)
\* C25: a negative TTL expires immediately: get(k, ttl) with ttl < 0 on a
\* stored key k returns None, for Cache and for LRUCache.
C25_NegativeTtlExpires ==
    (lastOp.op = "get" /\ lastOp.ttl < 0 /\ lastOp.had) => lastOp.ret = None

\* C30: the statistics of LRUCache are consistent: hits + misses is the
\* number of get calls since construction or the last clear(); a get that
\* returns a live entry increments hits only, a get on a missing or expired
\* key increments misses only, set changes neither counter and clear()
\* resets both.
C30_StatsConsistent ==
    [][target = "LRUCache" =>
         /\ lru'.hits + lru'.misses = gets'
         /\ StepOp.op = "get" =>
               IF StepOp.key \in Keys(lru.cache) /\ ~IsStale(StepOp.key, StepOp.ttl)
               THEN /\ lru'.hits = lru.hits + 1
                    /\ lru'.misses = lru.misses
                    /\ StepOp.ret = Stored(StepOp.key)
               ELSE /\ lru'.misses = lru.misses + 1
                    /\ lru'.hits = lru.hits
                    /\ StepOp.ret = None
         /\ StepOp.op = "set" =>
               lru'.hits = lru.hits /\ lru'.misses = lru.misses
         /\ StepOp.op = "clear" => lru'.hits = 0 /\ lru'.misses = 0]_vars

C30_Witness ==
    /\ target = "LRUCache"
    /\ lastOp.op = "get" /\ lastOp.stale
    /\ gets = 2 /\ lru.hits = 1 /\ lru.misses = 1

\* C26: the inferred quota is never zero or negative: when the highest
\* totalTokens of the records that are neither gap nor active is 0 or
\* negative, get_token_limit('custom_max', records) of core/data.py and of
\* data.py returns the pro ceiling 7000.
C26_NeverZeroOrNegative ==
    (/\ limit.made /\ limit.fn \in {"data", "legacy"}
     /\ limit.plan = "custom_max") =>
        /\ limit.ret > 0
        /\ (Completed # {} /\ ObservedMax <= 0) => limit.ret = 7000

(***************************************************************************)
(* Claims about the error messages and the adaptive TTL of run_ccusage     *)
(***************************************************************************)
\* an upstream fetch that failed
FailedFetch == call.made /\ call.invoked /\ call.kind \in Failures

\* C21: error messages are rate-limited per failure category: a failing
\* fetch prints its message exactly when no message of its own category was
\* printed in the 60 time units before it, so two messages of one category
\* are more than 60 apart and the messages of the other categories neither
\* suppress nor delay it.
C21_RateLimitedPerCategory ==
    FailedFetch =>
        (call.printed <=> \/ call.priorPrint = NoPrint
                          \/ call.t - call.priorPrint > 60)

C21_Witness ==
    /\ FailedFetch
    /\ call.printed
    /\ call.priorPrint # NoPrint
    /\ \E j \in Failures \ {call.kind} :
           prints[j] # NoPrint /\ call.t - prints[j] <= 60

\* the TTL the claim gives for hits and misses counted before the call
ClaimedTtl(hits, misses) ==
    LET total == hits + misses IN
    IF total = 0 \/ 100 * hits < 50 * total THEN 10
    ELSE IF 100 * hits > 80 * total THEN 4
    ELSE 5

\* C22: the TTL run_ccusage uses for the upstream data entry is 10 when
\* the hit rate is strictly below 50%, 4 when it is strictly above 80%
\* and 5 from 50% to 80% inclusive, and the entry is never served when
\* older than that TTL, so never when older than 10.
C22_AdaptiveTtl ==
    call.made =>
        /\ call.ttl = ClaimedTtl(call.hits, call.misses)
        /\ call.source = "cache" => call.age <= call.ttl /\ call.age <= 10

C22_Witness ==
    /\ call.made
    /\ call.source = "cache"
    /\ call.ttl = 4
    /\ call.hits * 100 > 80 * (call.hits + call.misses)

====
